---- MODULE Spec2Model ----
(***************************************************************************)
(* Model of Backend/main.py: the /upload handler (per-file cleaning, the   *)
(* join-key detector and the join engine) and the /command interpreter.    *)
(* Text the code inspects character by character (column headers, file     *)
(* names, commands, cell text) is a sequence of one-character strings.     *)
(***************************************************************************)
EXTENDS Integers, Sequences, FiniteSets, TLC

VARIABLES pc, files, idx, total_size, individual_dfs, file_names,
          processed_files, errors, combined_df, response, request, cmd_result

vars == <<pc, files, idx, total_size, individual_dfs, file_names,
          processed_files, errors, combined_df, response, request, cmd_result>>

----------------------------------------------------------------------------
(* Bounds of the model *)

MaxFiles == 3

MaxWords == 3

(* Program constants *)

MaxUploadFiles == 10

MaxTotalBytes == 50 * 1024 * 1024

NumericPrefix == 10

SampleSize == 100

PreviewRows == 10

----------------------------------------------------------------------------
(* Characters and strings *)

UpperChars == <<"A","B","C","D","E","F","G","H","I","J","K","L","M",
                "N","O","P","Q","R","S","T","U","V","W","X","Y","Z">>

LowerChars == <<"a","b","c","d","e","f","g","h","i","j","k","l","m",
                "n","o","p","q","r","s","t","u","v","w","x","y","z">>

DigitChars == <<"0","1","2","3","4","5","6","7","8","9">>

SpaceChars == {" ", "\t", "\n"}

WordChars == {LowerChars[i] : i \in 1..26} \cup {UpperChars[i] : i \in 1..26}
               \cup {DigitChars[i] : i \in 1..10} \cup {"_"}

Digits == {DigitChars[i] : i \in 1..10}

IsDigit(c) == c \in Digits

DigitVal(c) == (CHOOSE i \in 1..10 : DigitChars[i] = c) - 1

LowerOf == [c \in {UpperChars[i] : i \in 1..26} |->
               LowerChars[CHOOSE i \in 1..26 : UpperChars[i] = c]]

LowerChar(c) == IF c \in DOMAIN LowerOf THEN LowerOf[c] ELSE c

StrLower(s) == [i \in 1..Len(s) |-> LowerChar(s[i])]

RECURSIVE LStrip(_)
LStrip(s) == IF s # <<>> /\ Head(s) \in SpaceChars THEN LStrip(Tail(s)) ELSE s

RECURSIVE RStrip(_)
RStrip(s) ==
    IF s # <<>> /\ s[Len(s)] \in SpaceChars
    THEN RStrip(SubSeq(s, 1, Len(s) - 1))
    ELSE s

StrStrip(s) == RStrip(LStrip(s))

StrReplaceChar(s, old, new) == [i \in 1..Len(s) |-> IF s[i] = old THEN new ELSE s[i]]

StrRemoveChar(s, old) == SelectSeq(s, LAMBDA c : c # old)

StartsWithAt(s, p, sub) ==
    /\ p + Len(sub) - 1 <= Len(s)
    /\ \A i \in 1..Len(sub) : s[p + i - 1] = sub[i]

StrContains(s, sub) == \E p \in 1..(Len(s) + 1) : StartsWithAt(s, p, sub)

StrEndsWith(s, sub) ==
    /\ Len(sub) <= Len(s)
    /\ SubSeq(s, Len(s) - Len(sub) + 1, Len(s)) = sub

StrIsDigit(s) == s # <<>> /\ \A i \in 1..Len(s) : IsDigit(s[i])

RECURSIVE StrToInt(_)
StrToInt(s) ==
    IF s = <<>> THEN 0
    ELSE 10 * StrToInt(SubSeq(s, 1, Len(s) - 1)) + DigitVal(s[Len(s)])

RECURSIVE IntToStr(_)
IntToStr(n) ==
    IF n < 10 THEN <<DigitChars[n + 1]>>
    ELSE IntToStr(n \div 10) \o <<DigitChars[(n % 10) + 1]>>

(* str.split(".")[0] *)
RECURSIVE SplitDotFirst(_)
SplitDotFirst(s) ==
    IF s = <<>> \/ Head(s) = "." THEN <<>>
    ELSE <<Head(s)>> \o SplitDotFirst(Tail(s))

Min(a, b) == IF a <= b THEN a ELSE b

RECURSIVE Pow10(_)
Pow10(k) == IF k = 0 THEN 1 ELSE 10 * Pow10(k - 1)

IndexOf(seq, x) == CHOOSE i \in 1..Len(seq) : seq[i] = x /\ \A j \in 1..(i - 1) : seq[j] # x

InSeq(seq, x) == \E i \in 1..Len(seq) : seq[i] = x

RECURSIVE SeqSum(_)
SeqSum(s) == IF s = <<>> THEN 0 ELSE Head(s) + SeqSum(Tail(s))

RECURSIVE FlattenSeq(_)
FlattenSeq(ss) == IF ss = <<>> THEN <<>> ELSE Head(ss) \o FlattenSeq(Tail(ss))

(* the orders in which a set of the given elements can be iterated *)
RECURSIVE OrdersOf(_)
OrdersOf(S) ==
    IF S = {} THEN {<<>>}
    ELSE UNION {{<<x>> \o o : o \in OrdersOf(S \ {x})} : x \in S}

----------------------------------------------------------------------------
(* Cells and tables (pandas DataFrame) *)

NA == [t |-> "na", m |-> 0, k |-> 0, s |-> <<>>]

Num(mant, scale) == [t |-> "num", m |-> mant, k |-> scale, s |-> <<>>]

Txt(str) == [t |-> "txt", m |-> 0, k |-> 0, s |-> str]

Table(cols, rws) == [columns |-> cols, rows |-> rws]

EmptyTable == Table(<<>>, <<>>)

NRows(df) == Len(df.rows)

NCols(df) == Len(df.columns)

HasColumn(df, col) == InSeq(df.columns, col)

ColumnCells(df, c) == [r \in 1..NRows(df) |-> df.rows[r][c]]

CellOf(df, r, col) == df.rows[r][IndexOf(df.columns, col)]

(* DataFrame.empty: some axis has length zero *)
DfEmpty(df) == NRows(df) = 0 \/ NCols(df) = 0

KeepColumns(df, keep) ==
    LET sel == SelectSeq([i \in 1..NCols(df) |-> i], LAMBDA i : i \in keep)
    IN Table([j \in 1..Len(sel) |-> df.columns[sel[j]]],
             [r \in 1..NRows(df) |-> [j \in 1..Len(sel) |-> df.rows[r][sel[j]]]])

(* df[col] = value for every row: overwrite in place or append at the end *)
SetColumn(df, col, v) ==
    IF HasColumn(df, col)
    THEN Table(df.columns,
               [r \in 1..NRows(df) |->
                   [c \in 1..NCols(df) |-> IF df.columns[c] = col THEN v ELSE df.rows[r][c]]])
    ELSE Table(Append(df.columns, col), [r \in 1..NRows(df) |-> Append(df.rows[r], v)])

DropColumn(df, col) == KeepColumns(df, {c \in 1..NCols(df) : df.columns[c] # col})

DfHead(df, n) == Table(df.columns, SubSeq(df.rows, 1, Min(n, NRows(df))))

----------------------------------------------------------------------------
(* Cleaning of one table: upload_files, "# Clean data" *)

IsNa(v) == v.t = "na"

(* df.dropna(how='all') *)
DropNaRows(df) ==
    Table(df.columns,
          SelectSeq(df.rows, LAMBDA row : \E c \in 1..Len(row) : ~IsNa(row[c])))

(* df.dropna(axis=1, how='all') *)
DropNaCols(df) ==
    KeepColumns(df, {c \in 1..NCols(df) : \E r \in 1..NRows(df) : ~IsNa(df.rows[r][c])})

(* df.columns.str.strip().str.replace('\t', ' ').str.replace('\n', ' ') *)
NormalizeHeader(col) == StrReplaceChar(StrReplaceChar(StrStrip(col), "\t", " "), "\n", " ")

NormalizeHeaders(df) ==
    Table([c \in 1..NCols(df) |-> NormalizeHeader(df.columns[c])], df.rows)

(* astype(str) of one cell *)
NumStr(v) ==
    IF v.k = 0 THEN IntToStr(v.m)
    ELSE LET frac == IntToStr(v.m % Pow10(v.k))
             pad  == [i \in 1..(v.k - Len(frac)) |-> "0"]
         IN IntToStr(v.m \div Pow10(v.k)) \o <<".">> \o pad \o frac

AsStr(v) ==
    IF v.t = "na" THEN <<"n", "a", "n">>
    ELSE IF v.t = "txt" THEN v.s
    ELSE NumStr(v)

(* .str.replace(',', '.').str.replace('.', '').str.isdigit() *)
DigitLike(v) == StrIsDigit(StrRemoveChar(StrReplaceChar(AsStr(v), ",", "."), "."))

RECURSIVE NormNum(_, _)
NormNum(mant, scale) ==
    IF scale > 0 /\ mant % 10 = 0 THEN NormNum(mant \div 10, scale - 1)
    ELSE Num(mant, scale)

(* pd.to_numeric(text, errors='coerce') on text made of digits and points;
   any other text of the model's inputs is not a number and becomes NaN *)
ToNumeric(str) ==
    LET points == SelectSeq(str, LAMBDA c : c = ".")
        digits == StrRemoveChar(str, ".")
        first  == IF points = <<>> THEN Len(str) + 1 ELSE IndexOf(str, ".")
    IN IF StrIsDigit(digits) /\ Len(points) <= 1
       THEN NormNum(StrToInt(digits), Len(str) + 1 - Min(first + 1, Len(str) + 1))
       ELSE NA

(* the body of "for col in df.columns[:10]" for the column at position c *)
CoerceColumn(df, c) ==
    LET cells  == ColumnCells(df, c)
        nonna  == SelectSeq(cells, LAMBDA v : ~IsNa(v))
        sample == SubSeq(nonna, 1, Min(SampleSize, Len(nonna)))
    IN IF /\ c <= NumericPrefix
          /\ \E r \in 1..Len(cells) : cells[r].t = "txt"
          /\ Len(nonna) > 0
          /\ \A r \in 1..Len(sample) : DigitLike(sample[r])
       THEN [r \in 1..Len(cells) |-> ToNumeric(StrReplaceChar(AsStr(cells[r]), ",", "."))]
       ELSE cells

CoerceNumeric(df) ==
    LET newcols == [c \in 1..NCols(df) |-> CoerceColumn(df, c)]
    IN Table(df.columns, [r \in 1..NRows(df) |-> [c \in 1..NCols(df) |-> newcols[c][r]]])

(* df[col].dtype fails when the normalized header col names two columns *)
CleanRaises(df) ==
    LET h == NormalizeHeaders(DropNaCols(DropNaRows(df)))
    IN \E c \in 1..Min(NumericPrefix, NCols(h)) :
          \E d \in 1..NCols(h) : d # c /\ h.columns[d] = h.columns[c]

CleanTable(df) == CoerceNumeric(NormalizeHeaders(DropNaCols(DropNaRows(df))))

----------------------------------------------------------------------------
(* Column names, file names and cell text used by the inputs *)

order_id == <<"o", "r", "d", "e", "r", "_", "i", "d">>

cust_id == <<"c", "u", "s", "t", "_", "i", "d">>

amount == <<"a", "m", "o", "u", "n", "t">>

name == <<"n", "a", "m", "e">>

zip_code == <<"z", "i", "p", "_", "c", "o", "d", "e">>

source_file == <<"s", "o", "u", "r", "c", "e", "_", "f", "i", "l", "e">>

processed_at == <<"p", "r", "o", "c", "e", "s", "s", "e", "d", "_", "a", "t">>

name_padded == <<" ", "n", "a", "m", "e">>

zip_tab_code == <<"z", "i", "p", "\t", "c", "o", "d", "e">>

zip_code_spaced == <<"z", "i", "p", " ", "c", "o", "d", "e">>

orders_csv == <<"o", "r", "d", "e", "r", "s", ".", "c", "s", "v">>

customers_csv == <<"c", "u", "s", "t", "o", "m", "e", "r", "s", ".", "c", "s", "v">>

stores_csv == <<"s", "t", "o", "r", "e", "s", ".", "c", "s", "v">>

cities_xlsx == <<"c", "i", "t", "i", "e", "s", ".", "x", "l", "s", "x">>

prices_csv == <<"p", "r", "i", "c", "e", "s", ".", "c", "s", "v">>

accounts_csv == <<"a", "c", "c", "o", "u", "n", "t", "s", ".", "c", "s", "v">>

ledger_xlsx == <<"l", "e", "d", "g", "e", "r", ".", "x", "l", "s", "x">>

data_txt == <<"d", "a", "t", "a", ".", "t", "x", "t">>

empty_csv == <<"e", "m", "p", "t", "y", ".", "c", "s", "v">>

blank_csv == <<"b", "l", "a", "n", "k", ".", "c", "s", "v">>

header_csv == <<"h", "e", "a", "d", "e", "r", ".", "c", "s", "v">>

regions_xlsx == <<"r", "e", "g", "i", "o", "n", "s", ".", "x", "l", "s", "x">>

zones_xlsx == <<"z", "o", "n", "e", "s", ".", "x", "l", "s", "x">>

dot_csv == <<".", "c", "s", "v">>

t_ann == <<"a", "n", "n">>

t_bob == <<"b", "o", "b">>

t_cy == <<"c", "y">>

t_a1 == <<"a", "1">>

t_b2 == <<"b", "2">>

t_1_2_3 == <<"1", ".", "2", ".", "3">>

t_1c5 == <<"1", ",", "5">>

t_now == <<"n", "o", "w">>

(* a header cell that holds one space *)
blank_header == <<" ">>

----------------------------------------------------------------------------
(* JoinKeyDetector and JoinEngine *)

AllColumns(dfs) == UNION {{dfs[i].columns[c] : c \in 1..NCols(dfs[i])} : i \in 1..Len(dfs)}

SharedColumns(dfs) ==
    {col \in AllColumns(dfs) : Cardinality({i \in 1..Len(dfs) : HasColumn(dfs[i], col)}) > 1}

(* The orders in which the set all_columns may be iterated (a set of str has
   no order the program controls).  The detector drops the columns of a single
   table, so only the relative order of the shared columns shows in its
   result: each such order is taken once, the other columns placed last *)
IterationOrders(dfs) ==
    LET others == CHOOSE o \in OrdersOf(AllColumns(dfs) \ SharedColumns(dfs)) : TRUE
    IN {o \o others : o \in OrdersOf(SharedColumns(dfs))}

IdKeywords == {<<"i", "d">>}

IsIdLike(col) == \E kw \in IdKeywords : StrContains(StrLower(col), kw)

(* order: the order in which the set all_columns is iterated.  The result is
   the dict join_candidates as the sequence of its items, in insertion order;
   present_in holds positions in dfs counted from 1 *)
detect_join_keys(dfs, order) ==
    LET id_like_columns == SelectSeq(order, IsIdLike)
        prioritized_columns ==
            id_like_columns \o SelectSeq(order, LAMBDA col : ~InSeq(id_like_columns, col))
        present_in(col) ==
            SelectSeq([i \in 1..Len(dfs) |-> i], LAMBDA i : HasColumn(dfs[i], col))
        shared == SelectSeq(prioritized_columns, LAMBDA col : Len(present_in(col)) > 1)
    IN [j \in 1..Len(shared) |-> [col |-> shared[j], present_in |-> present_in(shared[j])]]

(* the loop "if len(file_indices) > max_common_files": the first item, in dict
   order, among those with the most files; 0 when there is no item *)
BestIndex(join_candidates) ==
    IF join_candidates = <<>> THEN 0
    ELSE CHOOSE j \in 1..Len(join_candidates) :
            /\ \A h \in 1..Len(join_candidates) :
                  Len(join_candidates[h].present_in) <= Len(join_candidates[j].present_in)
            /\ \A h \in 1..(j - 1) :
                  Len(join_candidates[h].present_in) < Len(join_candidates[j].present_in)

(* pd.concat([a, b], ignore_index=True) *)
Concat2(a, b) ==
    LET extra == SelectSeq(b.columns, LAMBDA col : ~HasColumn(a, col))
        cols  == a.columns \o extra
        widen(df) == [r \in 1..NRows(df) |->
                        [c \in 1..Len(cols) |->
                            IF HasColumn(df, cols[c]) THEN CellOf(df, r, cols[c]) ELSE NA]]
    IN Table(cols, widen(a) \o widen(b))

RECURSIVE ConcatAll(_)
ConcatAll(dfs) ==
    IF dfs = <<>> THEN EmptyTable
    ELSE IF Len(dfs) = 1 THEN dfs[1]
    ELSE Concat2(ConcatAll(SubSeq(dfs, 1, Len(dfs) - 1)), dfs[Len(dfs)])

(* left.merge(right, on=key, how='inner', suffixes=('', suffix)) *)
MergeInner(left, right, key, suffix) ==
    LET rkeep  == SelectSeq([c \in 1..NCols(right) |-> c], LAMBDA c : right.columns[c] # key)
        rname(c) == IF HasColumn(left, right.columns[c])
                    THEN right.columns[c] \o suffix
                    ELSE right.columns[c]
        cols   == left.columns \o [j \in 1..Len(rkeep) |-> rname(rkeep[j])]
        match(l) == SelectSeq(right.rows,
                              LAMBDA rr : rr[IndexOf(right.columns, key)]
                                            = l[IndexOf(left.columns, key)])
        joined(l) == LET m == match(l)
                     IN [q \in 1..Len(m) |-> l \o [j \in 1..Len(rkeep) |-> m[q][rkeep[j]]]]
    IN Table(cols, FlattenSeq([r \in 1..NRows(left) |-> joined(left.rows[r])]))

RECURSIVE MergeChain(_, _, _, _, _)
MergeChain(result_df, dfs, names, key, rest) ==
    IF rest = <<>> THEN result_df
    ELSE MergeChain(MergeInner(result_df, dfs[Head(rest)], key,
                               <<"_">> \o SplitDotFirst(names[Head(rest)])),
                    dfs, names, key, Tail(rest))

SmartJoinWith(dfs, names, join_candidates) ==
    IF Len(dfs) <= 1 THEN (IF dfs = <<>> THEN EmptyTable ELSE dfs[1])
    ELSE IF join_candidates = <<>> THEN ConcatAll(dfs)
    ELSE LET best == join_candidates[BestIndex(join_candidates)]
         IN IF best.col # <<>>
            THEN LET files_with_key == best.present_in
                     joined == MergeChain(dfs[files_with_key[1]], dfs, names,
                                          best.col, Tail(files_with_key))
                     remaining_files ==
                         SelectSeq([i \in 1..Len(dfs) |-> i],
                                   LAMBDA i : ~InSeq(files_with_key, i))
                 IN IF remaining_files # <<>>
                    THEN Concat2(joined,
                                 ConcatAll([j \in 1..Len(remaining_files) |->
                                               dfs[remaining_files[j]]]))
                    ELSE joined
            ELSE ConcatAll(dfs)

smart_join_dataframes(dfs, names, order) ==
    SmartJoinWith(dfs, names, detect_join_keys(dfs, order))

----------------------------------------------------------------------------
(* Uploaded files.  as_csv and as_excel are what pd.read_csv and
   pd.read_excel return for the file's bytes (ok = FALSE: the reader raises) *)

Parsed(df) == [ok |-> TRUE, df |-> df]

Unparsed == [ok |-> FALSE, df |-> EmptyTable]

UploadFile(fname, nbytes, csv, excel) ==
    [filename |-> fname, size |-> nbytes, as_csv |-> csv, as_excel |-> excel]

OrdersTable ==
    Table(<<order_id, amount>>,
          << <<Num(1, 0), Num(10, 0)>>, <<Num(2, 0), Num(20, 0)>>, <<Num(3, 0), Num(30, 0)>> >>)

CustomersTable ==
    Table(<<order_id, name>>,
          << <<Num(1, 0), Txt(t_ann)>>, <<Num(2, 0), Txt(t_bob)>>, <<Num(3, 0), Txt(t_cy)>> >>)

StoresTable ==
    Table(<<name_padded, zip_tab_code>>,
          << <<Txt(t_ann), Txt(t_a1)>>, <<Txt(t_bob), Txt(t_b2)>> >>)

CitiesTable ==
    Table(<<zip_code_spaced, name>>,
          << <<Txt(t_a1), Txt(t_ann)>>, <<NA, NA>>, <<Txt(t_b2), Txt(t_cy)>> >>)

PricesTable ==
    Table(<<amount, zip_code>>,
          << <<Txt(t_1_2_3), NA>>, <<Txt(t_1c5), NA>>, <<NA, NA>> >>)

AccountsTable ==
    Table(<<order_id, cust_id>>,
          << <<Num(1, 0), Num(7, 0)>>, <<Num(2, 0), Num(8, 0)>> >>)

LedgerTable ==
    Table(<<cust_id, order_id>>,
          << <<Num(7, 0), Num(1, 0)>>, <<Num(8, 0), Num(2, 0)>> >>)

BlankTable == Table(<<name>>, << <<NA>> >>)

HeaderOnlyTable == Table(<<name>>, <<>>)

NotesTable == Table(<<name>>, << <<Txt(t_ann)>> >>)

(* two sheets whose first column has a blank header cell *)
RegionsTable ==
    Table(<<blank_header, name>>, << <<Txt(t_a1), Txt(t_ann)>>, <<Txt(t_b2), Txt(t_bob)>> >>)

ZonesTable ==
    Table(<<blank_header, amount>>, << <<Txt(t_a1), Num(10, 0)>>, <<Txt(t_b2), Num(20, 0)>> >>)

BigBytes == 30 * 1024 * 1024

FilePool ==
    { UploadFile(orders_csv, BigBytes, Parsed(OrdersTable), Unparsed),
      UploadFile(customers_csv, 60, Parsed(CustomersTable), Unparsed),
      UploadFile(stores_csv, 40, Parsed(StoresTable), Unparsed),
      UploadFile(cities_xlsx, 900, Unparsed, Parsed(CitiesTable)),
      UploadFile(prices_csv, BigBytes, Parsed(PricesTable), Unparsed),
      UploadFile(accounts_csv, 30, Parsed(AccountsTable), Unparsed),
      UploadFile(ledger_xlsx, 800, Unparsed, Parsed(LedgerTable)),
      UploadFile(data_txt, 9, Parsed(NotesTable), Unparsed),
      UploadFile(empty_csv, 0, Unparsed, Unparsed),
      UploadFile(blank_csv, 6, Parsed(BlankTable), Unparsed),
      UploadFile(header_csv, 5, Parsed(HeaderOnlyTable), Unparsed),
      UploadFile(regions_xlsx, 700, Unparsed, Parsed(RegionsTable)),
      UploadFile(zones_xlsx, 600, Unparsed, Parsed(ZonesTable)) }

(* batches of files with pairwise different names, in upload order *)
RECURSIVE Batches(_)
Batches(n) ==
    IF n = 0 THEN {<<>>}
    ELSE LET shorter == Batches(n - 1)
         IN shorter \cup
            {Append(b, f) : b \in {x \in shorter : Len(x) = n - 1},
                            f \in FilePool}

DistinctNames(b) == \A i, j \in 1..Len(b) : i # j => b[i].filename # b[j].filename

----------------------------------------------------------------------------
(* POST /upload *)

NoResponse == [sent |-> FALSE]

NoRequest == [command |-> <<>>, preview |-> EmptyTable]

NoResult == [kind |-> "none"]

Init ==
    /\ pc = "start"
    /\ files \in {b \in Batches(MaxFiles) : DistinctNames(b)}
    /\ idx = 0
    /\ total_size = 0
    /\ individual_dfs = <<>>
    /\ file_names = <<>>
    /\ processed_files = <<>>
    /\ errors = <<>>
    /\ combined_df = EmptyTable
    /\ response = NoResponse
    /\ request = NoRequest
    /\ cmd_result = NoResult

(* lines 52-67: the request is refused with HTTP 400 *)
RejectUpload ==
    /\ pc = "start"
    /\ \/ files = <<>>
       \/ Len(files) > MaxUploadFiles
       \/ SeqSum([i \in 1..Len(files) |-> files[i].size]) > MaxTotalBytes
    /\ pc' = "rejected"
    /\ UNCHANGED <<files, idx, total_size, individual_dfs, file_names,
                   processed_files, errors, combined_df, response, request, cmd_result>>

(* lines 52-73: the checks pass and the lists are created *)
StartUpload ==
    /\ pc = "start"
    /\ files # <<>>
    /\ Len(files) <= MaxUploadFiles
    /\ SeqSum([i \in 1..Len(files) |-> files[i].size]) <= MaxTotalBytes
    /\ total_size' = SeqSum([i \in 1..Len(files) |-> files[i].size])
    /\ individual_dfs' = <<>>
    /\ processed_files' = <<>>
    /\ errors' = <<>>
    /\ file_names' = <<>>
    /\ idx' = 1
    /\ pc' = "loop"
    /\ UNCHANGED <<files, combined_df, response, request, cmd_result>>

ReadFile(file) ==
    IF StrEndsWith(file.filename, dot_csv) THEN file.as_csv ELSE file.as_excel

FileError(file, why) == [filename |-> file.filename, reason |-> why]

(* what one iteration of "for i, file in enumerate(files)" does with a file:
   the error it records, or the cleaned and tagged table it keeps *)
ProcessOutcome(file) ==
    IF file.size = 0 THEN [err |-> TRUE, reason |-> "is empty"]
    ELSE IF ~ReadFile(file).ok THEN [err |-> TRUE, reason |-> "exception"]
    ELSE LET raw == ReadFile(file).df
         IN IF DfEmpty(raw) THEN [err |-> TRUE, reason |-> "has no data"]
            ELSE IF CleanRaises(raw) THEN [err |-> TRUE, reason |-> "exception"]
            ELSE LET df == CleanTable(raw)
                 IN IF NRows(df) = 0
                    THEN [err |-> TRUE, reason |-> "All rows removed after cleaning"]
                    ELSE [err |-> FALSE, reason |-> "",
                          df |-> SetColumn(df, source_file, Txt(file.filename)),
                          entry |-> [filename |-> file.filename,
                                     original_rows |-> NRows(raw),
                                     cleaned_rows |-> NRows(df),
                                     original_columns |-> NCols(raw),
                                     cleaned_columns |-> NCols(df),
                                     removed_rows |-> NRows(raw) - NRows(df),
                                     removed_columns |-> NCols(raw) - NCols(df),
                                     columns |-> SetColumn(df, source_file,
                                                           Txt(file.filename)).columns,
                                     file_size |-> file.size]]

(* the loop with an empty file skipped silently: "continue" without the
   errors.append of line 80 *)
ProcessFileSilentSkip ==
    /\ pc = "loop"
    /\ idx <= Len(files)
    /\ LET out == ProcessOutcome(files[idx])
       IN IF out.err
          THEN /\ errors' = IF out.reason = "is empty"
                            THEN errors
                            ELSE Append(errors, FileError(files[idx], out.reason))
               /\ UNCHANGED <<individual_dfs, file_names, processed_files>>
          ELSE /\ individual_dfs' = Append(individual_dfs, out.df)
               /\ file_names' = Append(file_names, files[idx].filename)
               /\ processed_files' = Append(processed_files, out.entry)
               /\ UNCHANGED errors
    /\ idx' = idx + 1
    /\ UNCHANGED <<pc, files, total_size, combined_df, response, request, cmd_result>>

(* lines 75-148: one iteration of the loop over the files *)
ProcessFile ==
    /\ pc = "loop"
    /\ idx <= Len(files)
    /\ LET out == ProcessOutcome(files[idx])
       IN IF out.err
          THEN /\ errors' = Append(errors, FileError(files[idx], out.reason))
               /\ UNCHANGED <<individual_dfs, file_names, processed_files>>
          ELSE /\ individual_dfs' = Append(individual_dfs, out.df)
               /\ file_names' = Append(file_names, files[idx].filename)
               /\ processed_files' = Append(processed_files, out.entry)
               /\ UNCHANGED errors
    /\ idx' = idx + 1
    /\ UNCHANGED <<pc, files, total_size, combined_df, response, request, cmd_result>>

NoJoinInfo ==
    [present |-> FALSE, join_candidates |-> <<>>, join_strategy |-> "",
     has_best |-> FALSE, best_join_key |-> <<>>, files_joined |-> 0]

(* lines 151-166; max(keys, key=len) returns the first maximal key *)
JoinInfo(dfs, join_candidates) ==
    IF Len(dfs) > 1
    THEN [present |-> TRUE,
          join_candidates |-> join_candidates,
          join_strategy |-> IF join_candidates # <<>> THEN "smart_join" ELSE "concatenate",
          has_best |-> join_candidates # <<>>,
          best_join_key |-> IF join_candidates # <<>>
                            THEN join_candidates[BestIndex(join_candidates)].col
                            ELSE <<>>,
          files_joined |-> IF join_candidates # <<>>
                           THEN Len(join_candidates[BestIndex(join_candidates)].present_in)
                           ELSE 0]
    ELSE NoJoinInfo

(* lines 181-199: the part of the response computed from combined_df *)
PreviewOf(df) ==
    IF ~DfEmpty(df)
    THEN LET shown == IF HasColumn(df, source_file) THEN DropColumn(df, source_file) ELSE df
         IN [preview |-> DfHead(shown, PreviewRows),
             columns |-> shown.columns,
             total_rows |-> NRows(shown)]
    ELSE [preview |-> EmptyTable, columns |-> <<>>, total_rows |-> 0]

(* lines 150-202.  Both calls of detect_join_keys (lines 154 and 440) build
   the same set in the same process and iterate it in the same order *)
FinishUpload ==
    /\ pc = "loop"
    /\ idx > Len(files)
    /\ \E join_candidates \in {detect_join_keys(individual_dfs, order) :
                                  order \in IterationOrders(individual_dfs)} :
          LET joined == SmartJoinWith(individual_dfs, file_names, join_candidates)
              stamped == SetColumn(joined, processed_at, Txt(t_now))
          IN /\ combined_df' = stamped
             /\ response' = [sent |-> TRUE,
                             total_files_received |-> Len(files),
                             files_processed |-> Len(processed_files),
                             files_with_errors |-> Len(errors),
                             processed_files |-> processed_files,
                             errors |-> errors,
                             join_info |-> JoinInfo(individual_dfs, join_candidates),
                             body |-> PreviewOf(stamped)]
    /\ pc' = "done"
    /\ UNCHANGED <<files, idx, total_size, individual_dfs, file_names,
                   processed_files, errors, request, cmd_result>>

----------------------------------------------------------------------------
(* Text of commands and of the patterns run_command looks for *)

name_cap == <<"N", "a", "m", "e">>

w_name == <<"n", "a", "m", "e">>

w_zip_code == <<"z", "i", "p", " ", "c", "o", "d", "e">>

w_show == <<"s", "h", "o", "w">>

w_get == <<"g", "e", "t">>

w_rows == <<"r", "o", "w", "s">>

w_2 == <<"2">>

w_12 == <<"1", "2">>

w_columns == <<"c", "o", "l", "u", "m", "n", "s">>

w_plot == <<"p", "l", "o", "t">>

w_top_2 == <<"t", "o", "p", " ", "2">>

w_heatmap == <<"h", "e", "a", "t", "m", "a", "p">>

w_files_summary == <<"f", "i", "l", "e", "s", " ", "s", "u", "m", "m", "a", "r", "y">>

w_join_info == <<"j", "o", "i", "n", " ", "i", "n", "f", "o">>

w_analyze_joins == <<"a", "n", "a", "l", "y", "z", "e", " ", "j", "o", "i", "n", "s">>

w_size == <<"s", "i", "z", "e">>

w_Hello == <<"H", "e", "l", "l", "o">>

w_hello == <<"h", "e", "l", "l", "o">>

k_plot_top == <<"p", "l", "o", "t", " ", "t", "o", "p", " ">>

k_plot == <<"p", "l", "o", "t", " ">>

k_top == <<"t", "o", "p", " ">>

k_sp_plot == <<" ", "p", "l", "o", "t">>

k_heatmap == <<"h", "e", "a", "t", "m", "a", "p", " ">>

k_sp_heatmap == <<" ", "h", "e", "a", "t", "m", "a", "p">>

k_shape == <<"s", "h", "a", "p", "e">>

k_file_summary == <<"f", "i", "l", "e", " ", "s", "u", "m", "m", "a", "r", "y">>

k_join_details == <<"j", "o", "i", "n", " ", "d", "e", "t", "a", "i", "l", "s">>

k_join_analysis == <<"j", "o", "i", "n", " ", "a", "n", "a", "l", "y", "s", "i", "s">>

----------------------------------------------------------------------------
(* POST /command *)

(* first position at or after p that holds no whitespace: \s* *)
RECURSIVE SkipSpaces(_, _)
SkipSpaces(s, p) ==
    IF p <= Len(s) /\ s[p] \in SpaceChars THEN SkipSpaces(s, p + 1) ELSE p

(* first position at or after p that holds no digit: the end of \d+ *)
RECURSIVE SkipDigits(_, _)
SkipDigits(s, p) ==
    IF p <= Len(s) /\ IsDigit(s[p]) THEN SkipDigits(s, p + 1) ELSE p

RECURSIVE SkipWord(_, _)
SkipWord(s, p) ==
    IF p <= Len(s) /\ s[p] \in WordChars THEN SkipWord(s, p + 1) ELSE p

(* the part of s a pattern without \s or \n can match: up to the first newline *)
FirstLine(s) ==
    IF \E i \in 1..Len(s) : s[i] = "\n"
    THEN SubSeq(s, 1, (CHOOSE i \in 1..Len(s) : s[i] = "\n" /\ \A j \in 1..(i - 1) : s[j] # "\n") - 1)
    ELSE s

NoMatch == [matched |-> FALSE, n |-> 0, g1 |-> <<>>, g2 |-> <<>>]

(* the pattern without its optional leading keyword: r"(\d+)\s*(rows)?" *)
RowSliceMatchDigitsOnly(command) ==
    IF SkipDigits(command, 1) > 1
    THEN [NoMatch EXCEPT !.matched = TRUE,
                         !.n = StrToInt(SubSeq(command, 1, SkipDigits(command, 1) - 1))]
    ELSE NoMatch

(* re.match(r"(show|get)?\s*(\d+)\s*(rows)?", command) *)
RowSliceMatch(command) ==
    LET after(kw) == SkipSpaces(command, Len(kw) + 1)
        try(kw) == /\ StartsWithAt(command, 1, kw)
                   /\ SkipDigits(command, after(kw)) > after(kw)
        num(kw) == StrToInt(SubSeq(command, after(kw), SkipDigits(command, after(kw)) - 1))
    IN IF try(w_show) THEN [NoMatch EXCEPT !.matched = TRUE, !.n = num(w_show)]
       ELSE IF try(w_get) THEN [NoMatch EXCEPT !.matched = TRUE, !.n = num(w_get)]
       ELSE IF try(<<>>) THEN [NoMatch EXCEPT !.matched = TRUE, !.n = num(<<>>)]
       ELSE NoMatch

(* re.match(prefix + r"(\d+) (.+)", command) *)
PlotPrefixMatch(command, prefix) ==
    LET line == FirstLine(command)
        d0   == Len(prefix) + 1
        d1   == SkipDigits(line, d0)
    IN IF /\ StartsWithAt(line, 1, prefix)
          /\ d1 > d0
          /\ d1 + 1 <= Len(line)
          /\ line[d1] = " "
       THEN [NoMatch EXCEPT !.matched = TRUE,
                            !.n = StrToInt(SubSeq(line, d0, d1 - 1)),
                            !.g2 = SubSeq(line, d1 + 1, Len(line))]
       ELSE NoMatch

(* re.match(r"top (\d+) (.+) plot", command) *)
TopPlotMatch(command) ==
    LET line == FirstLine(command)
        d0   == Len(k_top) + 1
        d1   == SkipDigits(line, d0)
        ends == {h \in (d1 + 2)..Len(line) : StartsWithAt(line, h, k_sp_plot)}
    IN IF /\ StartsWithAt(line, 1, k_top)
          /\ d1 > d0
          /\ d1 <= Len(line)
          /\ line[d1] = " "
          /\ ends # {}
       THEN LET h == CHOOSE e \in ends : \A f \in ends : f <= e
            IN [NoMatch EXCEPT !.matched = TRUE,
                               !.n = StrToInt(SubSeq(line, d0, d1 - 1)),
                               !.g2 = SubSeq(line, d1 + 1, h - 1)]
       ELSE NoMatch

(* re.match(r"heatmap (\w+) (\w+)", command) *)
HeatmapWordsMatch(command) ==
    LET a0 == Len(k_heatmap) + 1
        a1 == SkipWord(command, a0)
        b1 == SkipWord(command, a1 + 1)
    IN IF /\ StartsWithAt(command, 1, k_heatmap)
          /\ a1 > a0
          /\ a1 <= Len(command)
          /\ command[a1] = " "
          /\ b1 > a1 + 1
       THEN [NoMatch EXCEPT !.matched = TRUE,
                            !.g1 = SubSeq(command, a0, a1 - 1),
                            !.g2 = SubSeq(command, a1 + 1, b1 - 1)]
       ELSE NoMatch

(* re.match(r"heatmap (.+) (.+)", command) *)
HeatmapAnyMatch(command) ==
    LET line == FirstLine(command)
        a0   == Len(k_heatmap) + 1
        cuts == {j \in (a0 + 1)..(Len(line) - 1) : line[j] = " "}
    IN IF StartsWithAt(line, 1, k_heatmap) /\ cuts # {}
       THEN LET j == CHOOSE c \in cuts : \A d \in cuts : d <= c
            IN [NoMatch EXCEPT !.matched = TRUE,
                               !.g1 = SubSeq(line, a0, j - 1),
                               !.g2 = SubSeq(line, j + 1, Len(line))]
       ELSE NoMatch

(* re.match(r"(.+) (.+) heatmap", command) *)
HeatmapLastMatch(command) ==
    LET line == FirstLine(command)
        ends == {h \in 4..Len(line) : StartsWithAt(line, h, k_sp_heatmap)}
        h    == CHOOSE e \in ends : \A f \in ends : f <= e
        cuts == {j \in 2..(h - 2) : line[j] = " "}
    IN IF ends # {} /\ cuts # {}
       THEN LET j == CHOOSE c \in cuts : \A d \in cuts : d <= c
            IN [NoMatch EXCEPT !.matched = TRUE,
                               !.g1 = SubSeq(line, 1, j - 1),
                               !.g2 = SubSeq(line, j + 1, h - 1)]
       ELSE NoMatch

(* plot_patterns and heatmap_patterns, in the order the loops try them *)
PlotMatches(command) ==
    <<PlotPrefixMatch(command, k_plot_top), PlotPrefixMatch(command, k_plot),
      TopPlotMatch(command)>>

HeatmapMatches(command) ==
    <<HeatmapWordsMatch(command), HeatmapAnyMatch(command), HeatmapLastMatch(command)>>

RECURSIVE FirstMatch(_)
FirstMatch(ms) ==
    IF ms = <<>> THEN NoMatch
    ELSE LET m == Head(ms) IN IF m.matched THEN m ELSE FirstMatch(Tail(ms))

(* column_mapping = {col.lower(): col for col in df.columns} *)
MappingHas(df, low) == \E c \in 1..NCols(df) : StrLower(df.columns[c]) = low

MappingGet(df, low) ==
    df.columns[CHOOSE c \in 1..NCols(df) :
                  /\ StrLower(df.columns[c]) = low
                  /\ \A d \in (c + 1)..NCols(df) : StrLower(df.columns[d]) # low]

IdentifierKeywords == {<<"i", "d">>, <<"c", "o", "d", "e">>, <<"k", "e", "y">>, <<"r", "e", "f">>}

(* any(keyword in col.lower() for keyword in ['id', 'code', 'key', 'ref']) *)
IsIdentifierLike(col) == \E kw \in IdentifierKeywords : StrContains(StrLower(col), kw)

(* rows per value of source_file: groupby("source_file") *)
RowsPerFile(df) ==
    LET tags == {CellOf(df, r, source_file) : r \in 1..NRows(df)} \ {NA}
    IN {[file |-> tag.s,
         rows |-> Cardinality({r \in 1..NRows(df) : CellOf(df, r, source_file) = tag})] :
           tag \in tags}

FileAnalysis(df) ==
    LET tags == {CellOf(df, r, source_file) : r \in 1..NRows(df)} \ {NA}
        mine(tag) == {r \in 1..NRows(df) : CellOf(df, r, source_file) = tag}
        counted == {c \in 1..NCols(df) : df.columns[c] \notin {source_file, processed_at}}
    IN {[file |-> tag.s,
         rows |-> Cardinality(mine(tag)),
         columns |-> NCols(df),
         unique_values |-> {<<df.columns[c],
                              Cardinality({df.rows[r][c] : r \in mine(tag)} \ {NA})>> :
                                c \in counted}] :
           tag \in tags}

(* lowercasing without the strip() *)
NormalizeCommandNoStrip(raw) == StrLower(raw)

(* request.command.strip().lower() *)
NormalizeCommand(raw) == StrLower(StrStrip(raw))

run_command(raw, df) ==
    LET command == NormalizeCommand(raw)
        slice   == RowSliceMatch(command)
        plot    == FirstMatch(PlotMatches(command))
        heat    == FirstMatch(HeatmapMatches(command))
        pcol    == StrLower(StrStrip(plot.g2))
        col1    == StrLower(StrStrip(heat.g1))
        col2    == StrLower(StrStrip(heat.g2))
        summary == [kind |-> "summary", columns |-> df.columns,
                    shape |-> <<NRows(df), NCols(df)>>]
    IN IF DfEmpty(df) THEN [kind |-> "error", error |-> "no_data"]
       ELSE IF slice.matched
         THEN [kind |-> "result", result |-> DfHead(df, slice.n).rows]
       ELSE IF plot.matched
         THEN IF MappingHas(df, pcol)
              THEN [kind |-> "plot_image", plot_type |-> "bar",
                    title |-> <<plot.n, MappingGet(df, pcol)>>]
              ELSE [kind |-> "error", error |-> "column_not_found", missing |-> <<pcol>>]
       ELSE IF heat.matched
         THEN IF MappingHas(df, col1) /\ MappingHas(df, col2)
              THEN [kind |-> "plot_image", plot_type |-> "heatmap",
                    title |-> <<MappingGet(df, col1), MappingGet(df, col2)>>]
              ELSE [kind |-> "error", error |-> "column_not_found",
                    missing |-> SelectSeq(<<col1, col2>>, LAMBDA low : ~MappingHas(df, low))]
       ELSE IF StrContains(command, w_columns) THEN summary
       ELSE IF StrContains(command, k_shape) \/ StrContains(command, w_size) THEN summary
       ELSE IF StrContains(command, w_files_summary) \/ StrContains(command, k_file_summary)
         THEN IF HasColumn(df, source_file)
              THEN [kind |-> "files_summary", total_files |-> Cardinality(RowsPerFile(df)),
                    files |-> RowsPerFile(df), total_rows |-> NRows(df)]
              ELSE [kind |-> "error", error |-> "no_file_source"]
       ELSE IF StrContains(command, w_join_info) \/ StrContains(command, k_join_details)
         THEN [kind |-> "message"]
       ELSE IF StrContains(command, w_analyze_joins) \/ StrContains(command, k_join_analysis)
         THEN IF HasColumn(df, source_file)
              THEN [kind |-> "join_analysis", total_files |-> Cardinality(FileAnalysis(df)),
                    total_rows |-> NRows(df), file_analysis |-> FileAnalysis(df),
                    join_columns |-> SelectSeq(df.columns, IsIdentifierLike)]
              ELSE [kind |-> "error", error |-> "no_file_source"]
       ELSE [kind |-> "error", error |-> "unknown_command", echo |-> command,
             examples |-> TRUE]

(* a request whose preview is the one the upload response carried *)
RoundTripCommands == {w_files_summary, w_analyze_joins, w_show \o <<" ">> \o w_2 \o <<" ">> \o w_rows,
                      k_heatmap \o order_id \o <<" ">> \o w_name}

Resubmit ==
    /\ pc = "done"
    /\ \E command \in RoundTripCommands :
          request' = [command |-> command, preview |-> response.body.preview]
    /\ pc' = "cmd_start"
    /\ UNCHANGED <<files, idx, total_size, individual_dfs, file_names,
                   processed_files, errors, combined_df, response, cmd_result>>

(* lines 209-418: the handler answers the request *)
RunCommand ==
    /\ pc = "cmd_start"
    /\ cmd_result' = run_command(request.command, request.preview)
    /\ pc' = "cmd_done"
    /\ UNCHANGED <<files, idx, total_size, individual_dfs, file_names,
                   processed_files, errors, combined_df, response, request>>

Next ==
    \/ RejectUpload
    \/ StartUpload
    \/ ProcessFile
    \/ FinishUpload
    \/ Resubmit
    \/ RunCommand

Spec == Init /\ [][Next]_vars

----------------------------------------------------------------------------
(* Commands sent with a preview of the client's own *)

CommandWords ==
    {<<>>, w_show, w_get, w_2, w_12, w_rows, w_columns, w_plot, w_top_2, w_heatmap,
     w_name, w_zip_code, w_files_summary, w_join_info, w_analyze_joins, w_size, w_Hello}

RECURSIVE JoinWords(_)
JoinWords(ws) ==
    IF ws = <<>> THEN <<>>
    ELSE IF Len(ws) = 1 THEN ws[1]
    ELSE ws[1] \o <<" ">> \o JoinWords(Tail(ws))

RECURSIVE WordSeqs(_)
WordSeqs(n) ==
    IF n = 0 THEN {<<>>}
    ELSE LET shorter == WordSeqs(n - 1)
         IN shorter \cup {Append(ws, w) : ws \in {x \in shorter : Len(x) = n - 1},
                                           w \in CommandWords}

ClientCommands == {JoinWords(ws) : ws \in WordSeqs(MaxWords)}

TaggedPreview ==
    Table(<<name, source_file>>,
          << <<Txt(t_ann), Txt(orders_csv)>>, <<Txt(t_bob), Txt(orders_csv)>>,
             <<Txt(t_cy), Txt(customers_csv)>> >>)

PlainPreview ==
    Table(<<order_id, name_cap, zip_code_spaced>>, << <<Num(1, 0), Txt(t_ann), Txt(t_a1)>> >>)

ClientPreviews == {TaggedPreview, PlainPreview}

InitCmd ==
    /\ pc = "cmd_start"
    /\ files = <<>>
    /\ idx = 0
    /\ total_size = 0
    /\ individual_dfs = <<>>
    /\ file_names = <<>>
    /\ processed_files = <<>>
    /\ errors = <<>>
    /\ combined_df = EmptyTable
    /\ response = NoResponse
    /\ request \in {[command |-> c, preview |-> p] : c \in ClientCommands, p \in ClientPreviews}
                   \cup {[command |-> c, preview |-> EmptyTable] : c \in RoundTripCommands}
    /\ cmd_result = NoResult

NextCmd == RunCommand

SpecCmd == InitCmd /\ [][NextCmd]_vars

----------------------------------------------------------------------------
(* Properties of the upload *)

DataColumns(df) == {df.columns[c] : c \in 1..NCols(df)} \ {source_file}

FilesWith(dfs, col) == {i \in 1..Len(dfs) : HasColumn(dfs[i], col)}

CleanedRowsTotal ==
    SeqSum([i \in 1..Len(processed_files) |-> processed_files[i].cleaned_rows])

(* the row r of df is a row of big, as far as the data columns of df go *)
RowAppears(df, r, big) ==
    \E q \in 1..NRows(big) :
       \A c \in 1..NCols(df) :
          df.columns[c] # source_file =>
             /\ HasColumn(big, df.columns[c])
             /\ CellOf(big, q, df.columns[c]) = df.rows[r][c]

(* C1: two or more cleaned files without a common data column are stacked:
   the combined table has the sum of the cleaned row counts and join_info
   reports the "concatenate" strategy *)
C1_NoSharedColumnConcatenates ==
    ( /\ response.sent
      /\ Len(individual_dfs) >= 2
      /\ \A i, j \in 1..Len(individual_dfs) :
            i # j => DataColumns(individual_dfs[i]) \cap DataColumns(individual_dfs[j]) = {} )
    => /\ NRows(combined_df) = CleanedRowsTotal
       /\ response.join_info.join_strategy = "concatenate"

(* C2: with three or more cleaned files and a data column K that is in at
   least two but not all of them and in more files than any other data column,
   K is the join key and every row of a file without K is in the combined
   table *)
C2_FilesWithoutKeyAppended ==
    (response.sent /\ Len(individual_dfs) >= 3) =>
       \A K \in UNION {DataColumns(individual_dfs[i]) : i \in 1..Len(individual_dfs)} :
          ( /\ Cardinality(FilesWith(individual_dfs, K)) >= 2
            /\ Cardinality(FilesWith(individual_dfs, K)) < Len(individual_dfs)
            /\ \A other \in UNION {DataColumns(individual_dfs[i]) :
                                      i \in 1..Len(individual_dfs)} \ {K} :
                  Cardinality(FilesWith(individual_dfs, other))
                     < Cardinality(FilesWith(individual_dfs, K)) )
          => /\ response.join_info.best_join_key = K
             /\ \A i \in (1..Len(individual_dfs)) \ FilesWith(individual_dfs, K) :
                   \A r \in 1..NRows(individual_dfs[i]) :
                      RowAppears(individual_dfs[i], r, combined_df)

(* C3: uploading orders.csv [order_id, amount] and customers.csv
   [order_id, name], three rows each with the same order_id values, returns
   exactly three rows and exactly the columns order_id, amount, name *)
C3_OrdersCustomersJoin ==
    ( /\ response.sent
      /\ Len(files) = 2
      /\ files[1].filename = orders_csv
      /\ files[2].filename = customers_csv )
    => /\ response.body.total_rows = 3
       /\ response.body.columns = <<order_id, amount, name>>

RECURSIVE Dedup(_)
Dedup(seq) ==
    IF seq = <<>> THEN <<>>
    ELSE LET front == Dedup(SubSeq(seq, 1, Len(seq) - 1))
         IN IF InSeq(front, seq[Len(seq)]) THEN front ELSE Append(front, seq[Len(seq)])

EncounterOrder(dfs) == Dedup(FlattenSeq([i \in 1..Len(dfs) |-> dfs[i].columns]))

FirstEncounteredBest(dfs) ==
    LET enc == EncounterOrder(dfs)
        top(j) == \A h \in 1..Len(enc) :
                     Cardinality(FilesWith(dfs, enc[h])) <= Cardinality(FilesWith(dfs, enc[j]))
    IN enc[CHOOSE j \in 1..Len(enc) : top(j) /\ \A h \in 1..(j - 1) : ~top(h)]

(* C4: among the candidate columns present in the largest number of tables,
   the join key is the one met first in the input order of tables and columns *)
C4_TieBrokenByInputOrder ==
    (response.sent /\ response.join_info.has_best) =>
       response.join_info.best_join_key = FirstEncounteredBest(individual_dfs)

(* C5: in the candidate ranking every column whose name contains id, code,
   key or ref comes before every column whose name contains none of them, and
   such a column among those in the most tables is the join key *)
C5_IdentifierLikeRankedFirst ==
    (response.sent /\ response.join_info.has_best) =>
       LET jc == response.join_info.join_candidates
           most(j) == \A h \in 1..Len(jc) : Len(jc[h].present_in) <= Len(jc[j].present_in)
       IN /\ \A a, b \in 1..Len(jc) :
                (IsIdentifierLike(jc[a].col) /\ ~IsIdentifierLike(jc[b].col)) => a < b
          /\ (\E j \in 1..Len(jc) : most(j) /\ IsIdentifierLike(jc[j].col))
                => IsIdentifierLike(response.join_info.best_join_key)

SupportedExtensions == {dot_csv, <<".", "x", "l", "s", "x">>, <<".", "x", "l", "s">>}

(* the per-file failures the error policy names *)
FailsPerFile(file) ==
    \/ file.size = 0
    \/ \A ext \in SupportedExtensions : ~StrEndsWith(file.filename, ext)
    \/ ~ReadFile(file).ok
    \/ DfEmpty(ReadFile(file).df)
    \/ \A r \in 1..NRows(ReadFile(file).df) :
          \A c \in 1..NCols(ReadFile(file).df) : IsNa(ReadFile(file).df.rows[r][c])

ErrorsFor(fname) == Len(SelectSeq(errors, LAMBDA e : e.filename = fname))

(* C6: a failing file adds one entry to errors and is left out of the combined
   tables; every other file of the batch is processed and its rows are in the
   combined table; a response is built even when every file fails *)
C6_PerFileErrorsIsolated ==
    response.sent =>
       \A i \in 1..Len(files) :
          IF FailsPerFile(files[i])
          THEN /\ ErrorsFor(files[i].filename) = 1
               /\ ~InSeq(file_names, files[i].filename)
          ELSE /\ ErrorsFor(files[i].filename) = 0
               /\ InSeq(file_names, files[i].filename)
               /\ LET df == individual_dfs[IndexOf(file_names, files[i].filename)]
                  IN \A r \in 1..NRows(df) : RowAppears(df, r, combined_df)

(* C10: cleaning a table that cleaning produced changes nothing *)
C10_CleaningIdempotent ==
    \A i \in 1..Len(individual_dfs) :
       LET cleaned == DropColumn(individual_dfs[i], source_file)
       IN CleanTable(cleaned) = cleaned

----------------------------------------------------------------------------
(* Properties of the command interpreter *)

Answered == pc = "cmd_done" /\ ~DfEmpty(request.preview)

Normalized(raw) == StrLower(StrStrip(raw))

(* the text c is kw, then white space, then a digit at position a *)
CountStartsAt(c, kw, a) ==
    /\ Len(kw) < a /\ a <= Len(c)
    /\ IsDigit(c[a])
    /\ StartsWithAt(c, 1, kw)
    /\ \A p \in (Len(kw) + 1)..(a - 1) : c[p] \in SpaceChars

(* the numeral that starts at position a ends at position b *)
CountEndsAt(c, a, b) ==
    /\ \A p \in a..b : IsDigit(c[p])
    /\ b < Len(c) => ~IsDigit(c[b + 1])

NumeralValue(c, a, b) ==
    SeqSum([p \in 1..(b - a + 1) |-> DigitVal(c[a + p - 1]) * Pow10(b - a + 1 - p)])

(* C7: for a non-empty preview a command that, lowercased and trimmed, begins
   with an optional show or get and then an integer N returns the first
   min(N, row count) rows, whatever follows the integer *)
C7_RowSliceFirst ==
    Answered =>
       LET c == Normalized(request.command)
       IN \A kw \in {<<>>, w_show, w_get} :
             \A a \in 1..Len(c) :
                CountStartsAt(c, kw, a) =>
                   \A b \in a..Len(c) :
                      CountEndsAt(c, a, b) =>
                         /\ cmd_result.kind = "result"
                         /\ cmd_result.result =
                               SubSeq(request.preview.rows, 1,
                                      Min(NumeralValue(c, a, b), NRows(request.preview)))

W7_ShowTwoColumns ==
    /\ Answered
    /\ request.command = w_show \o <<" ">> \o w_2 \o <<" ">> \o w_columns
    /\ NRows(request.preview) = 3
    /\ cmd_result.kind = "result"
    /\ Len(cmd_result.result) = 2

(* C8: after an upload of two or more files, "files summary" on the returned
   preview gives the per-file row counts, not the missing-source error *)
C8_FilesSummaryAfterUpload ==
    ( /\ Answered
      /\ response.sent
      /\ Len(individual_dfs) >= 2
      /\ request.command = w_files_summary )
    => cmd_result.kind = "files_summary"

IsUnknown(result) == result.kind = "error" /\ result.error = "unknown_command"

ContainsAny(command, subs) == \E sub \in subs : StrContains(command, sub)

MatchesChart(command) ==
    \/ PlotPrefixMatch(command, k_plot_top).matched
    \/ PlotPrefixMatch(command, k_plot).matched
    \/ TopPlotMatch(command).matched
    \/ HeatmapWordsMatch(command).matched
    \/ HeatmapAnyMatch(command).matched
    \/ HeatmapLastMatch(command).matched

MatchesCount(command) ==
    \E kw \in {<<>>, w_show, w_get} :
       \E a \in 1..Len(command) : CountStartsAt(command, kw, a)

(* the patterns the claim lists *)
ListedPatternMatches(command) ==
    \/ MatchesCount(command)
    \/ MatchesChart(command)
    \/ ContainsAny(command, {w_columns, k_shape, w_size, w_files_summary, k_file_summary,
                             w_analyze_joins, k_join_analysis})

(* C9 as claimed: for a non-empty preview the unknown-command error is
   returned exactly when none of row-slice, plot, heatmap, columns,
   shape/size, files summary, analyze joins matches, and it echoes the command
   exactly as sent and lists example forms *)
C9_UnknownIffNoListedPattern ==
    Answered =>
       LET c == Normalized(request.command)
       IN /\ IsUnknown(cmd_result) <=> ~ListedPatternMatches(c)
          /\ IsUnknown(cmd_result) =>
                (cmd_result.echo = request.command /\ cmd_result.examples)

(* C9 amended: for a non-empty preview the unknown-command error is returned
   exactly when none of row-slice, plot, heatmap, columns, shape/size, files
   summary, join info/join details, analyze joins matches the trimmed,
   lowercased command, and it echoes that trimmed, lowercased command and
   lists example forms *)
C9_UnknownIffNoPattern ==
    Answered =>
       LET c == Normalized(request.command)
       IN /\ IsUnknown(cmd_result) <=>
                ~( \/ ListedPatternMatches(c)
                   \/ ContainsAny(c, {w_join_info, k_join_details}) )
          /\ IsUnknown(cmd_result) => (cmd_result.echo = c /\ cmd_result.examples)

W9_UnknownHello ==
    /\ Answered
    /\ request.command = w_Hello
    /\ IsUnknown(cmd_result)
    /\ cmd_result.echo = w_hello

----------------------------------------------------------------------------
(* Accounting of the upload loop *)

(* how many entries of the two lists name the file *)
RecordedTimes(done, failed, fname) ==
    Cardinality({i \in 1..Len(done) : done[i].filename = fname})
      + Cardinality({i \in 1..Len(failed) : failed[i].filename = fname})

(* the names of the first n received files that are not in errors, in upload order *)
KeptNames(n) ==
    SelectSeq([i \in 1..n |-> files[i].filename],
              LAMBDA fname : \A e \in 1..Len(errors) : errors[e].filename # fname)

(* C11: every file the loop has handled is recorded exactly once, in
   processed_files or in errors, so that the response's files_processed plus
   files_with_errors is total_files_received; individual_dfs, file_names and
   processed_files have the same length and the same order, which is the
   upload order of the files kept *)
C11_EveryFileRecordedOnce ==
    /\ Len(individual_dfs) = Len(file_names)
    /\ Len(processed_files) = Len(file_names)
    /\ \A i \in 1..Len(file_names) :
          /\ processed_files[i].filename = file_names[i]
          /\ \A r \in 1..NRows(individual_dfs[i]) :
                CellOf(individual_dfs[i], r, source_file) = Txt(file_names[i])
    /\ pc \in {"loop", "done", "cmd_start", "cmd_done"} /\ files # <<>> =>
          /\ file_names = KeptNames(idx - 1)
          /\ \A i \in 1..Len(files) :
                RecordedTimes(processed_files, errors, files[i].filename)
                   = IF i < idx THEN 1 ELSE 0
    /\ response.sent =>
          /\ response.files_processed + response.files_with_errors
                = response.total_files_received
          /\ response.total_files_received = Len(files)
          /\ \A i \in 1..Len(files) :
                RecordedTimes(response.processed_files, response.errors,
                              files[i].filename) = 1

W11_TwoKeptOneFailed ==
    /\ response.sent
    /\ response.total_files_received = 3
    /\ response.files_processed = 2
    /\ response.files_with_errors = 1

----------------------------------------------------------------------------
(* The join report against the join that was made *)

(* the combined table when the kept tables are stacked and stamped *)
PlainConcatenation == SetColumn(ConcatAll(individual_dfs), processed_at, Txt(t_now))

(* the combined table when the first n tables that have the column key are
   merged on it in upload order, the other tables appended, and the result
   stamped *)
JoinedOn(key, n) ==
    LET with == SelectSeq([i \in 1..Len(individual_dfs) |-> i],
                          LAMBDA i : HasColumn(individual_dfs[i], key))
        chain == SubSeq(with, 1, n)
        rest == SelectSeq([i \in 1..Len(individual_dfs) |-> i],
                          LAMBDA i : ~InSeq(chain, i))
        merged == MergeChain(individual_dfs[chain[1]], individual_dfs, file_names,
                             key, Tail(chain))
        whole == IF rest = <<>> THEN merged
                 ELSE Concat2(merged, ConcatAll([j \in 1..Len(rest) |->
                                                    individual_dfs[rest[j]]]))
    IN SetColumn(whole, processed_at, Txt(t_now))

(* C12: for a batch with two or more cleaned files, the reported
   best_join_key is the column the combined table was joined on, files_joined
   is the number of tables that entered that join chain, and join_strategy is
   'concatenate' exactly when the combined table is the plain concatenation
   of the tables *)
C12_JoinReportMatchesJoin ==
    (response.sent /\ Len(individual_dfs) >= 2) =>
       /\ response.join_info.present
       /\ response.join_info.has_best =>
             /\ response.join_info.files_joined
                   <= Cardinality(FilesWith(individual_dfs, response.join_info.best_join_key))
             /\ response.join_info.files_joined >= 2
             /\ combined_df = JoinedOn(response.join_info.best_join_key,
                                       response.join_info.files_joined)
       /\ (response.join_info.join_strategy = "concatenate")
             <=> (combined_df = PlainConcatenation)

====
